---- MODULE Spec2Model ----
(***************************************************************************)
(* PR Review Finder (plugins/pr-review-finder/src/main.py).                *)
(*                                                                         *)
(* Strings are sequences of characters; a character is a one-character     *)
(* string, except for the three non-ASCII code points the program meets,   *)
(* which are written by their code point name:                             *)
(*   "U+1F440" (the eyes emoji), "U+0130" (capital I with dot above),      *)
(*   "U+0307" (combining dot above), "U+0022" (the double quote) and       *)
(*   "U+0060" (the grave accent).                                          *)
(* An optional string (str | None) is a record [some, v].                  *)
(***************************************************************************)
EXTENDS Integers, Sequences, FiniteSets, TLC

VARIABLES
    pc,             \* position of the interpreter in main()
    argv,           \* the command line: command, days, channel, repo_pattern
    config_file,    \* channels.yaml on disk: its kind and its content
    channels,       \* the local `channels` of cmd_search / cmd_list_channels
    search_config,  \* the local `search_config` of cmd_search
    stdout,         \* what was written to standard output, in order
    stderr,         \* what was written to standard error, in order
    exit_code,      \* -1 while the process runs, then its exit status
    now_ordinal,    \* the day datetime.now() falls on, as a proleptic ordinal
    lib_pc,         \* position of a caller of the two text helpers
    text,           \* the `text` argument of a text helper
    repo_filter,    \* the `repo_pattern` argument of extract_pr_urls
    is_review,      \* the value is_review_request returned
    urls            \* the value extract_pr_urls returned

vars == <<pc, argv, config_file, channels, search_config, stdout, stderr,
          exit_code, now_ordinal, lib_pc, text, repo_filter, is_review, urls>>

cli_vars == <<pc, argv, config_file, channels, search_config, stdout, stderr,
              exit_code, now_ordinal>>

lib_vars == <<lib_pc, text, repo_filter, is_review, urls>>

(***************************************************************************)
(* Bounds of the model.                                                    *)
(***************************************************************************)
MaxFrags == 3       \* fragments a text is concatenated from
MaxChannels == 2    \* entries of the channel registry

(***************************************************************************)
(* Characters and Python's str operations.                                 *)
(***************************************************************************)
EYES == "U+1F440"
IDOT == "U+0130"
CDOT == "U+0307"
NL == "\n"

NoneStr == [some |-> FALSE, v |-> <<>>]
Some(s) == [some |-> TRUE, v |-> s]

\* Python truthiness of a str | None value: None and "" are both false.
Truthy(o) == o.some /\ o.v # <<>>

UpperLetters ==
    <<"A", "B", "C", "D", "E", "F", "G", "H", "I", "J", "K", "L", "M",
      "N", "O", "P", "Q", "R", "S", "T", "U", "V", "W", "X", "Y", "Z">>

LowerLetters ==
    <<"a", "b", "c", "d", "e", "f", "g", "h", "i", "j", "k", "l", "m",
      "n", "o", "p", "q", "r", "s", "t", "u", "v", "w", "x", "y", "z">>

IsUpper(c) == \E i \in 1..26 : UpperLetters[i] = c

\* str.lower() on one character: the full lowercase mapping, which sends
\* U+0130 to the two characters "i" U+0307.
lower_char(c) ==
    IF IsUpper(c)
    THEN <<LowerLetters[CHOOSE i \in 1..26 : UpperLetters[i] = c]>>
    ELSE IF c = IDOT THEN <<"i", CDOT>>
    ELSE <<c>>

RECURSIVE str_lower(_)
str_lower(s) ==
    IF s = <<>> THEN <<>> ELSE lower_char(Head(s)) \o str_lower(Tail(s))

\* `sub in s` on strings.
str_contains(s, sub) ==
    \E i \in 1..(Len(s) + 1) :
        /\ i + Len(sub) - 1 <= Len(s)
        /\ SubSeq(s, i, i + Len(sub) - 1) = sub

(***************************************************************************)
(* Regular expressions.  A pattern of the program is a sequence of literal *)
(* segments joined by ".*"; inside a segment the atom ANY is an unescaped  *)
(* "." (any character but a newline).                                      *)
(***************************************************************************)
ANY == "<.>"

\* The one-character lowercase the regex engine applies under IGNORECASE.
sre_lower(c) ==
    IF IsUpper(c) THEN LowerLetters[CHOOSE i \in 1..26 : UpperLetters[i] = c]
    ELSE IF c = IDOT THEN "i"
    ELSE c

atom_match(a, c, ignorecase) ==
    IF a = ANY THEN c # NL
    ELSE IF ignorecase THEN sre_lower(a) = sre_lower(c)
    ELSE a = c

seg_at(seg, s, q, ignorecase) ==
    /\ q + Len(seg) - 1 <= Len(s)
    /\ \A j \in 1..Len(seg) : atom_match(seg[j], s[q + j - 1], ignorecase)

no_newline(s, from, to) == \A j \in from..to : s[j] # NL

RECURSIVE match_segs(_, _, _, _, _)
match_segs(segs, k, s, pos, ignorecase) ==
    IF k > Len(segs) THEN TRUE
    ELSE \E q \in pos..(Len(s) + 1) :
            /\ k = 1 \/ no_newline(s, pos, q - 1)
            /\ seg_at(segs[k], s, q, ignorecase)
            /\ match_segs(segs, k + 1, s, q + Len(segs[k]), ignorecase)

\* bool(re.search(pattern, s, flags))
re_search(pattern, s, ignorecase) == match_segs(pattern, 1, s, 1, ignorecase)

REVIEW_PATTERNS == <<
    << <<EYES>> >>,
    << <<":", "e", "y", "e", "s", ":">> >>,
    << <<"e", "y", "e", "s", " ", "o", "n">> >>,
    << <<"r", "e", "v", "i", "e", "w">> >>,
    << <<"p", "l", "e", "a", "s", "e">>, <<"l", "o", "o", "k">> >>,
    << <<"l", "o", "o", "k">>, <<"a", "t">> >>,
    << <<"n", "e", "e", "d">>, <<"r", "e", "v", "i", "e", "w">> >>,
    << <<"c", "a", "n">>, <<"s", "o", "m", "e", "o", "n", "e">> >>,
    << <<"a", "n", "y", "o", "n", "e">>, <<"r", "e", "v", "i", "e", "w">> >>,
    << <<"c", "o", "u", "l", "d">>, <<"g", "e", "t">> >>,
    << <<"w", "o", "u", "l", "d">>,
       <<"a", "p", "p", "r", "e", "c", "i", "a", "t", "e">> >>,
    << <<"h", "e", "l", "p">>, <<"r", "e", "v", "i", "e", "w">> >>,
    << <<"w", "a", "i", "t", "i", "n", "g">>,
       <<"r", "e", "v", "i", "e", "w">> >>,
    << <<"b", "l", "o", "c", "k", "e", "d">>,
       <<"r", "e", "v", "i", "e", "w">> >>,
    << <<"r", "e", "a", "d", "y">>, <<"r", "e", "v", "i", "e", "w">> >>,
    << <<"P", "T", "A", "L">> >>,
    << <<"l", "g", "t", "m", "?">> >>,
    << <<"t", "h", "o", "u", "g", "h", "t", "s", "?">> >>
>>

(***************************************************************************)
(* is_review_request                                                       *)
(***************************************************************************)
\* The for loop over a pattern list: the first match returns True.
RECURSIVE review_loop(_, _, _)
review_loop(patterns, text_lower, i) ==
    IF i > Len(patterns) THEN FALSE
    ELSE IF re_search(patterns[i], text_lower, TRUE) THEN TRUE
    ELSE review_loop(patterns, text_lower, i + 1)

\* Faulty variant: the text is searched as it is, case-sensitively.
is_review_request_case_sensitive(t) ==
    \E i \in 1..Len(REVIEW_PATTERNS) : re_search(REVIEW_PATTERNS[i], t, FALSE)

\* Faulty variant: the loop stops one pattern short of the end of the list.
is_review_request_short(t) ==
    review_loop(SubSeq(REVIEW_PATTERNS, 1, Len(REVIEW_PATTERNS) - 1),
                str_lower(t), 1)

is_review_request(t) == review_loop(REVIEW_PATTERNS, str_lower(t), 1)

(***************************************************************************)
(* re.compile for the regular expressions a repo pattern is drawn from:    *)
(* literal characters, "\c", "." and ".*".                                 *)
(***************************************************************************)
add_atom(segs, a) ==
    [segs EXCEPT ![Len(segs)] = Append(segs[Len(segs)], a)]

RECURSIVE re_compile_from(_, _, _)
re_compile_from(s, i, segs) ==
    IF i > Len(s) THEN segs
    ELSE IF s[i] = "." /\ i < Len(s) /\ s[i + 1] = "*"
         THEN re_compile_from(s, i + 2, Append(segs, <<>>))
    ELSE IF s[i] = "." THEN re_compile_from(s, i + 1, add_atom(segs, ANY))
    ELSE IF s[i] = "\\" /\ i < Len(s)
         THEN re_compile_from(s, i + 2, add_atom(segs, s[i + 1]))
    ELSE re_compile_from(s, i + 1, add_atom(segs, s[i]))

re_compile(s) == re_compile_from(s, 1, << <<>> >>)

(***************************************************************************)
(* GITHUB_PR_PATTERN = https?://github\.com/[^/]+/[^/]+/pull/\d+           *)
(***************************************************************************)
Digits == {"0", "1", "2", "3", "4", "5", "6", "7", "8", "9"}

s_http == <<"h", "t", "t", "p">>
s_host == <<":", "/", "/", "g", "i", "t", "h", "u", "b", ".", "c", "o", "m",
  "/">>
s_pull == <<"/", "p", "u", "l", "l", "/">>

lit_at(s, i, lit) ==
    /\ i + Len(lit) - 1 <= Len(s)
    /\ SubSeq(s, i, i + Len(lit) - 1) = lit

\* The index after the longest run of characters of (or, with `negated`, not
\* of) `class` that starts at i: a greedy [class]+ or [^class]+.
RECURSIVE run_end(_, _, _, _)
run_end(s, i, class, negated) ==
    IF i <= Len(s) /\ ((s[i] \in class) # negated)
    THEN run_end(s, i + 1, class, negated)
    ELSE i

\* The index after the match of GITHUB_PR_PATTERN that starts at i, or 0 when
\* the pattern does not match there.  Neither [^/]+ can give a character
\* back (the next atom is "/"), so the greedy match is the only one.
github_pr_match_end(s, i) ==
    IF ~lit_at(s, i, s_http) THEN 0
    ELSE LET p1 == IF lit_at(s, i + 4, <<"s">>) THEN i + 5 ELSE i + 4
         IN  IF ~lit_at(s, p1, s_host) THEN 0
             ELSE LET o1 == p1 + Len(s_host)
                      o2 == run_end(s, o1, {"/"}, TRUE)
                  IN  IF o2 = o1 \/ ~lit_at(s, o2, <<"/">>) THEN 0
                      ELSE LET r1 == o2 + 1
                               r2 == run_end(s, r1, {"/"}, TRUE)
                           IN  IF r2 = r1 \/ ~lit_at(s, r2, s_pull) THEN 0
                               ELSE LET d1 == r2 + Len(s_pull)
                                        d2 == run_end(s, d1, Digits, FALSE)
                                    IN  IF d2 = d1 THEN 0 ELSE d2

\* re.findall(GITHUB_PR_PATTERN, s): the matches from left to right, each
\* search resuming where the previous match ended.
RECURSIVE re_findall_github_pr(_, _)
re_findall_github_pr(s, pos) ==
    IF pos > Len(s) THEN <<>>
    ELSE LET e == github_pr_match_end(s, pos)
         IN  IF e = 0 THEN re_findall_github_pr(s, pos + 1)
             ELSE <<SubSeq(s, pos, e - 1)>> \o re_findall_github_pr(s, e)

(***************************************************************************)
(* extract_pr_urls                                                         *)
(***************************************************************************)
\* [u for u in us if re.search(repo_pattern, u)]
RECURSIVE keep_matching(_, _)
keep_matching(us, compiled) ==
    IF us = <<>> THEN <<>>
    ELSE (IF re_search(compiled, Head(us), FALSE) THEN <<Head(us)>> ELSE <<>>)
         \o keep_matching(Tail(us), compiled)

\* Faulty variant: the filter is tried on the whole text instead of on each URL.
extract_pr_urls_filter_on_text(t, repo_pattern) ==
    LET found == re_findall_github_pr(t, 1)
    IN  IF Truthy(repo_pattern)
        THEN (IF re_search(re_compile(repo_pattern.v), t, FALSE)
              THEN found ELSE <<>>)
        ELSE found

extract_pr_urls(t, repo_pattern) ==
    LET found == re_findall_github_pr(t, 1)
    IN  IF Truthy(repo_pattern)
        THEN keep_matching(found, re_compile(repo_pattern.v))
        ELSE found

(***************************************************************************)
(* Texts: concatenations of at most MaxFrags fragments.                    *)
(***************************************************************************)
RECURSIVE TextsOf(_, _)
TextsOf(frags, n) ==
    IF n = 0 THEN {<<>>}
    ELSE LET shorter == TextsOf(frags, n - 1)
         IN  shorter \cup {t \o f : t \in shorter, f \in frags}

ClassifyFragments == {
    <<EYES>>,
    <<":", "E", "y", "e", "s", ":">>,
    <<"p", "T", "a", "L">>,
    <<"x">>,
    <<NL>>,
    <<"R", "E", "V", IDOT, "E", "W">>,
    <<"r", "e", "v", "i", "e", "w">>,
    <<"p", "l", "e", "a", "s", "e">>,
    <<"l", "o", "o", "k">>,
    <<"t", "h", "o", "u", "g", "h", "t", "s", "?">>
}

(***************************************************************************)
(* A caller of is_review_request.                                          *)
(***************************************************************************)
CliIdle ==
    /\ pc = "idle"
    /\ argv = [command |-> "none", days_ok |-> TRUE, days |-> 0,
               channel |-> NoneStr, repo_pattern |-> NoneStr]
    /\ config_file = [kind |-> "absent", channels |-> <<>>]
    /\ channels = [type |-> "unset", items |-> <<>>]
    /\ now_ordinal = 0
    /\ search_config = <<>>
    /\ stdout = <<>>
    /\ stderr = <<>>
    /\ exit_code = -1

InitClassify ==
    /\ CliIdle
    /\ lib_pc = "input"
    /\ text \in TextsOf(ClassifyFragments, MaxFrags)
    /\ repo_filter = NoneStr
    /\ is_review = FALSE
    /\ urls = <<>>

Classify ==
    /\ lib_pc = "input"
    /\ is_review' = is_review_request(text)
    /\ lib_pc' = "classified"
    /\ UNCHANGED <<text, repo_filter, urls>>
    /\ UNCHANGED cli_vars

NextClassify == Classify

SpecClassify == InitClassify /\ [][NextClassify]_vars

(***************************************************************************)
(* Properties of is_review_request.                                        *)
(***************************************************************************)
same_letter(c, d) ==
    \/ c = d
    \/ \E k \in 1..26 : {c, d} = {UpperLetters[k], LowerLetters[k]}

contains_any_case(s, target) ==
    \E i \in 1..(Len(s) + 1) :
        /\ i + Len(target) - 1 <= Len(s)
        /\ \A j \in 1..Len(target) : same_letter(s[i + j - 1], target[j])

\* C6: a text that contains the eyes emoji, ":eyes:" or "PTAL", the letters in
\* any case, at any position, is classified as a review request.
C6_MarkersClassifyTrue ==
    lib_pc = "classified" =>
        (   \/ contains_any_case(text, <<EYES>>)
            \/ contains_any_case(text, <<":", "e", "y", "e", "s", ":">>)
            \/ contains_any_case(text, <<"P", "T", "A", "L">>)
         => is_review)

C6_Witness ==
    /\ lib_pc = "classified"
    /\ Len(text) > 4
    /\ text[1] = "x"
    /\ SubSeq(text, 2, 5) = <<"p", "T", "a", "L">>
    /\ is_review

occurs_at(s, i, seg) ==
    /\ i + Len(seg) - 1 <= Len(s)
    /\ SubSeq(s, i, i + Len(seg) - 1) = seg

\* A pattern matches a text caselessly when the lowercased segments of the
\* pattern occur in the lowercased text, in order, on one line.
pattern_matches_caseless(p, t) ==
    LET low == str_lower(t)
        first == str_lower(p[1])
    IN  \E i \in 1..(Len(low) + 1) :
            /\ occurs_at(low, i, first)
            /\ \/ Len(p) = 1
               \/ \E j \in (i + Len(first))..(Len(low) + 1) :
                    /\ occurs_at(low, j, str_lower(p[2]))
                    /\ \A k \in (i + Len(first))..(j - 1) : low[k] # NL

Reverse(s) == [i \in 1..Len(s) |-> s[Len(s) + 1 - i]]

ExtractFragments == {
    <<"h", "t", "t", "p", "s", ":", "/", "/", "g", "i", "t", "h", "u", "b",
      ".", "c", "o", "m", "/", "o", "r", "g", "1", "/", "r", "e", "p", "o",
      "/", "p", "u", "l", "l", "/", "4", "2">>,
    <<"h", "t", "t", "p", ":", "/", "/", "g", "i", "t", "h", "u", "b", ".",
      "c", "o", "m", "/", "o", "r", "g", "2", "/", "r", "e", "p", "o", "/",
      "p", "u", "l", "l", "/", "7">>,
    <<"h", "t", "t", "p", "s", ":", "/", "/", "g", "i", "t", "h", "u", "b",
      ".", "c", "o", "m", "/", "t", "a", "t", "a", "r", "i", "-", "t", "v",
      "/", "a", "p", "i", "/", "p", "u", "l", "l", "/", "3">>,
    <<"h", "t", "t", "p", "s", ":", "/", "/", "g", "i", "t", "h", "u", "b",
      ".", "c", "o", "m", "/", "o", "r", "g", "1", "/">>,
    <<"s", "e", "e", " ">>,
    <<"1">>,
    <<"/">>
}

RepoFilters == {NoneStr} \cup {Some(f) : f \in {
    <<>>,
    <<"o", "r", "g", "1">>,
    <<"o", "r", "g", "2">>,
    <<"O", "r", "g", "1">>,
    <<"p", "u", "l", "l", "/", "4", ".">>,
    <<"g", "i", "t", "h", "u", "b", ".", "c", "o", "m", "/", "t", "a", "t",
      "a", "r", "i", "-", "t", "v", "/", ".", "*", "/", "p", "u", "l", "l",
      "/">>
}}

InitExtract ==
    /\ CliIdle
    /\ lib_pc = "input"
    /\ text \in TextsOf(ExtractFragments, MaxFrags)
    /\ repo_filter \in RepoFilters
    /\ is_review = FALSE
    /\ urls = <<>>

Extract ==
    /\ lib_pc = "input"
    /\ urls' = extract_pr_urls(text, repo_filter)
    /\ lib_pc' = "extracted"
    /\ UNCHANGED <<text, repo_filter, is_review>>
    /\ UNCHANGED cli_vars

NextExtract == Extract

SpecExtract == InitExtract /\ [][NextExtract]_vars

(***************************************************************************)
(* Properties of extract_pr_urls.                                          *)
(***************************************************************************)
\* u has the shape scheme://github.com/<org>/<repo>/pull/<digits>.
is_pr_url(u) ==
    \E n \in {4, 5} :
        /\ occurs_at(u, 1, s_http)
        /\ n = 5 => occurs_at(u, 5, <<"s">>)
        /\ occurs_at(u, n + 1, s_host)
        /\ \E a \in (n + 2 + Len(s_host))..Len(u) :
            /\ u[a] = "/"
            /\ \A k \in (n + 1 + Len(s_host))..(a - 1) : u[k] # "/"
            /\ \E b \in (a + 2)..Len(u) :
                /\ occurs_at(u, b, s_pull)
                /\ \A k \in (a + 1)..(b - 1) : u[k] # "/"
                /\ b + Len(s_pull) <= Len(u)
                /\ \A k \in (b + Len(s_pull))..Len(u) : u[k] \in Digits

\* The pull-request URLs of s from position pos on, in order of appearance:
\* the leftmost URL, taken to its last digit, then those after it.  (A URL
\* ends in a digit, so only those ends are tried.)
RECURSIVE pr_occurrences(_, _)
pr_occurrences(s, pos) ==
    LET starts == {i \in pos..Len(s) :
                      /\ occurs_at(s, i, s_http)
                      /\ \E e \in i..Len(s) :
                            s[e] \in Digits /\ is_pr_url(SubSeq(s, i, e))}
    IN  IF starts = {} THEN <<>>
        ELSE LET i0 == CHOOSE i \in starts : \A j \in starts : i <= j
                 ends == {e \in i0..Len(s) :
                            s[e] \in Digits /\ is_pr_url(SubSeq(s, i0, e))}
                 e0 == CHOOSE e \in ends : \A f \in ends : f <= e
             IN  <<SubSeq(s, i0, e0)>> \o pr_occurrences(s, e0 + 1)

is_literal(f) == \A k \in 1..Len(f) : f[k] \notin {".", "*", "\\"}

\* C8: the result is the pull-request URLs of the text in order of appearance,
\* duplicates kept; with a repo filter it is the subsequence of exactly the
\* URLs the filter matches; without one, or with an empty one, it is all of
\* them.
C8_ExtractOrderAndFilter ==
    lib_pc = "extracted" =>
        LET all == pr_occurrences(text, 1)
            keeps(u) == re_search(re_compile(repo_filter.v), u, FALSE)
        IN  /\ ~Truthy(repo_filter) => urls = all
            /\ Truthy(repo_filter) => urls = SelectSeq(all, keeps)
            /\ Truthy(repo_filter) /\ is_literal(repo_filter.v) =>
                 \A k \in 1..Len(all) :
                    str_contains(all[k], repo_filter.v)
                        <=> \E m \in 1..Len(urls) : urls[m] = all[k]
            /\ (Truthy(repo_filter) /\ \A k \in 1..Len(all) : ~keeps(all[k]))
                 => urls = <<>>

C8_Witness ==
    /\ lib_pc = "extracted"
    /\ repo_filter = Some(<<"o", "r", "g", "1">>)
    /\ Len(pr_occurrences(text, 1)) = 3
    /\ Len(urls) = 2
    /\ urls[1] = urls[2]

(***************************************************************************)
(* Python's str comparison, str(int) and sorted.                           *)
(***************************************************************************)
Ascii ==
    <<
      " ", "!", "U+0022", "#", "$", "%", "&", "'", "(", ")", "*", "+",
      ",", "-", ".", "/", "0", "1", "2", "3", "4", "5", "6", "7",
      "8", "9", ":", ";", "<", "=", ">", "?", "@", "A", "B", "C",
      "D", "E", "F", "G", "H", "I", "J", "K", "L", "M", "N", "O",
      "P", "Q", "R", "S", "T", "U", "V", "W", "X", "Y", "Z", "[",
      "\\", "]", "^", "_", "U+0060", "a", "b", "c", "d", "e", "f", "g",
      "h", "i", "j", "k", "l", "m", "n", "o", "p", "q", "r", "s",
      "t", "u", "v", "w", "x", "y", "z", "{", "|", "}", "~"
    >>

\* ord(c)
code_point(c) ==
    IF c = NL THEN 10
    ELSE IF c = IDOT THEN 304
    ELSE IF c = CDOT THEN 775
    ELSE IF c = EYES THEN 128064
    ELSE 31 + (CHOOSE i \in 1..Len(Ascii) : Ascii[i] = c)

\* a <= b on strings: lexicographic by code point.
RECURSIVE str_le(_, _)
str_le(a, b) ==
    IF a = <<>> THEN TRUE
    ELSE IF b = <<>> THEN FALSE
    ELSE IF code_point(Head(a)) < code_point(Head(b)) THEN TRUE
    ELSE IF code_point(Head(a)) > code_point(Head(b)) THEN FALSE
    ELSE str_le(Tail(a), Tail(b))

DigitChars == <<"0", "1", "2", "3", "4", "5", "6", "7", "8", "9">>

RECURSIVE nat_to_str(_)
nat_to_str(n) ==
    IF n < 10 THEN <<DigitChars[n + 1]>>
    ELSE nat_to_str(n \div 10) \o <<DigitChars[(n % 10) + 1]>>

\* str(n)
int_to_str(n) == IF n < 0 THEN <<"-">> \o nat_to_str(-n) ELSE nat_to_str(n)

\* Insert x after every element of the sorted list whose key is <= its key.
insert_by_key(sorted, x) ==
    LET before == {k \in 0..Len(sorted) :
                      \A j \in 1..k : str_le(sorted[j].key, x.key)}
        at == CHOOSE k \in before : \A j \in before : j <= k
    IN  SubSeq(sorted, 1, at) \o <<x>> \o SubSeq(sorted, at + 1, Len(sorted))

RECURSIVE sort_keyed(_)
sort_keyed(keyed) ==
    IF keyed = <<>> THEN <<>>
    ELSE insert_by_key(sort_keyed(SubSeq(keyed, 1, Len(keyed) - 1)),
                       keyed[Len(keyed)])

\* sorted(items, key=...): a stable sort; keys[k] is the key of items[k].
sorted_by(items, keys) ==
    LET keyed == [k \in 1..Len(items) |-> [key |-> keys[k], item |-> items[k]]]
        ordered == sort_keyed(keyed)
    IN  [k \in 1..Len(items) |-> ordered[k].item]

(***************************************************************************)
(* channels.yaml and load_channels.  A registry (a dict) is the sequence   *)
(* of its items, in insertion order, with distinct ids.                    *)
(*                                                                         *)
(* config_file.kind is                                                     *)
(*   "absent"           no channels.yaml                                   *)
(*   "yaml_error"       not YAML: yaml.safe_load raises yaml.YAMLError     *)
(*   "not_mapping"      YAML, but the document is empty, a list or a       *)
(*                      scalar: safe_load returns a value with no .get     *)
(*   "no_channels_key"  a mapping without the key `channels`               *)
(*   "channels_null"    `channels:` with no value: the key maps to None    *)
(*   "channels_list"    `channels:` is the list [C1, C2]                   *)
(*   "ok"               `channels:` is a mapping id -> display name        *)
(***************************************************************************)
names_of(items) == [k \in 1..Len(items) |-> items[k].name]

ids_of(items) == [k \in 1..Len(items) |-> items[k].id]

\* The list a `channels:` that is a YAML list of ids loads as.
yaml_id_list == <<<<"C", "1">>, <<"C", "2">>>>

load_channels(cf) ==
    IF cf.kind = "absent"
    THEN [status |-> "exit", value |-> [type |-> "unset", items |-> <<>>]]
    ELSE IF cf.kind = "yaml_error"
    THEN [status |-> "YAMLError", value |-> [type |-> "unset", items |-> <<>>]]
    ELSE IF cf.kind = "not_mapping"
    THEN [status |-> "AttributeError",
          value |-> [type |-> "unset", items |-> <<>>]]
    ELSE IF cf.kind = "no_channels_key"
    THEN [status |-> "return", value |-> [type |-> "dict", items |-> <<>>]]
    ELSE IF cf.kind = "channels_null"
    THEN [status |-> "return", value |-> [type |-> "none", items |-> <<>>]]
    ELSE IF cf.kind = "channels_list"
    THEN [status |-> "return",
          value |-> [type |-> "list", items |-> yaml_id_list]]
    ELSE [status |-> "return",
          value |-> [type |-> "dict", items |-> cf.channels]]

(***************************************************************************)
(* cmd_list_channels                                                       *)
(***************************************************************************)
Line(s) == [kind |-> "line", line |-> s]

s_configured == <<"C", "o", "n", "f", "i", "g", "u", "r", "e", "d", " ", "c",
  "h", "a", "n", "n", "e", "l", "s", ":">>
s_total == <<"T", "o", "t", "a", "l", ":", " ">>
s_channels == <<" ", "c", "h", "a", "n", "n", "e", "l", "s">>
s_edit == <<"E", "d", "i", "t", " ", "<", "p", "l", "u", "g", "i", "n", "_",
  "d", "i", "r", ">", "/", "c", "h", "a", "n", "n", "e", "l", "s", ".", "y",
  "a", "m", "l", " ", "t", "o", " ", "a", "d", "d", "/", "r", "e", "m", "o",
  "v", "e", " ", "c", "h", "a", "n", "n", "e", "l", "s">>

list_header == <<Line(s_configured), Line([i \in 1..50 |-> "-"])>>

list_row(item) == Line(<<" ", " ">> \o item.id \o <<":", " ">> \o item.name)

list_footer(n) ==
    <<Line(<<>>), Line(s_total \o int_to_str(n) \o s_channels),
      Line(<<>>), Line(s_edit)>>

\* Faulty variant: the rows are sorted by channel id.
list_rows_by_id(items) ==
    LET ordered == sorted_by(items, ids_of(items))
    IN  [k \in 1..Len(ordered) |-> list_row(ordered[k])]

list_rows(items) ==
    LET ordered == sorted_by(items, names_of(items))
    IN  [k \in 1..Len(ordered) |-> list_row(ordered[k])]

(***************************************************************************)
(* cmd_search                                                              *)
(***************************************************************************)
\* Faulty variant: the filter is only matched against display names.
select_channels_by_name_only(registry, f) ==
    LET by_name(item) == str_contains(str_lower(item.name), str_lower(f))
        matched == SelectSeq(registry, by_name)
    IN  [found |-> matched # <<>>, items |-> matched]

\* Faulty variant: a filter that matches nothing selects every channel.
select_channels_fallback_all(registry, f) ==
    LET by_name(item) == str_contains(str_lower(item.name), str_lower(f))
        matched == SelectSeq(registry, by_name)
    IN  IF \E k \in 1..Len(registry) : registry[k].id = f
        THEN [found |-> TRUE,
              items |-> <<registry[CHOOSE k \in 1..Len(registry) :
                                      registry[k].id = f]>>]
        ELSE IF matched # <<>> THEN [found |-> TRUE, items |-> matched]
        ELSE [found |-> TRUE, items |-> registry]

\* Lines 115-124, for a dict `channels` and a non-empty filter.
select_channels(registry, f) ==
    LET by_name(item) == str_contains(str_lower(item.name), str_lower(f))
        matched == SelectSeq(registry, by_name)
    IN  IF \E k \in 1..Len(registry) : registry[k].id = f
        THEN [found |-> TRUE,
              items |-> <<registry[CHOOSE k \in 1..Len(registry) :
                                      registry[k].id = f]>>]
        ELSE IF matched # <<>> THEN [found |-> TRUE, items |-> matched]
        ELSE [found |-> FALSE, items |-> <<>>]

s_action == <<"s", "e", "a", "r", "c", "h", "_", "s", "l", "a", "c", "k", "_",
  "f", "o", "r", "_", "p", "r", "_", "r", "e", "v", "i", "e", "w", "s">>
s_default_repo == <<"g", "i", "t", "h", "u", "b", ".", "c", "o", "m", "/", "t",
  "a", "t", "a", "r", "i", "-", "t", "v", "/", ".", "*", "/", "p", "u", "l",
  "l", "/">>
s_default_repo_hint == <<"g", "i", "t", "h", "u", "b", ".", "c", "o", "m", "/",
  "t", "a", "t", "a", "r", "i", "-", "t", "v", "/", "*", "/", "p", "u", "l",
  "l", "/", "*">>

DateMaxOrdinal == 3652059

\* datetime.now() - timedelta(days=days) raises OverflowError when the date
\* leaves 0001-01-01 .. 9999-12-31.
cutoff_overflows(today, days) ==
    today - days < 1 \/ today - days > DateMaxOrdinal

instructions_head(days, repo_pattern) ==
    <<
        <<>>,
        <<"S", "e", "a", "r", "c", "h", " ", "t", "h", "e", "s", "e", " ", "S",
          "l", "a", "c", "k", " ", "c", "h", "a", "n", "n", "e", "l", "s", " ",
          "f", "o", "r", " ", "P", "R", " ", "r", "e", "v", "i", "e", "w", " ",
          "r", "e", "q", "u", "e", "s", "t", "s", " ", "f", "r", "o", "m", " ",
          "t", "h", "e", " ", "l", "a", "s", "t", " ">>
            \o int_to_str(days) \o <<" ", "d", "a", "y", "s", ".">>,
        <<>>,
        <<"F", "o", "r", " ", "e", "a", "c", "h", " ", "c", "h", "a", "n", "n",
          "e", "l", ",", " ", "u", "s", "e", " ", "m", "c", "p", "_", "_", "s",
          "l", "a", "c", "k", "_", "_", "s", "l", "a", "c", "k", "_", "g", "e",
          "t", "_", "c", "h", "a", "n", "n", "e", "l", "_", "h", "i", "s", "t",
          "o", "r", "y", " ", "t", "o", " ", "g", "e", "t", " ", "m", "e", "s",
          "s", "a", "g", "e", "s", ",">>,
        <<"t", "h", "e", "n", " ", "l", "o", "o", "k", " ", "f", "o", "r", " ",
          "m", "e", "s", "s", "a", "g", "e", "s", " ", "t", "h", "a", "t",
          ":">>,
        <<"1", ".", " ", "C", "o", "n", "t", "a", "i", "n", " ", "G", "i", "t",
          "H", "u", "b", " ", "P", "R", " ", "U", "R", "L", "s", " ", "m", "a",
          "t", "c", "h", "i", "n", "g", ":", " ">>
            \o (IF Truthy(repo_pattern) THEN repo_pattern.v
                ELSE s_default_repo_hint),
        <<"2", ".", " ", "C", "o", "n", "t", "a", "i", "n", " ", "r", "e", "v",
          "i", "e", "w", " ", "r", "e", "q", "u", "e", "s", "t", " ", "p", "a",
          "t", "t", "e", "r", "n", "s", " ", "l", "i", "k", "e", ":", " ", "e",
          "y", "e", "s", ",", " ", EYES, ",", " ", "r", "e", "v", "i", "e",
          "w", ",", " ", "p", "l", "e", "a", "s", "e", " ", "l", "o", "o", "k",
          ",", " ", "e", "t", "c", ".">>,
        <<>>,
        <<"R", "e", "p", "o", "r", "t", " ", "f", "i", "n", "d", "i", "n", "g",
          "s", " ", "a", "s", ":">>,
        <<"-", " ", "C", "h", "a", "n", "n", "e", "l", " ", "n", "a", "m",
          "e">>,
        <<"-", " ", "M", "e", "s", "s", "a", "g", "e", " ", "a", "u", "t", "h",
          "o", "r">>,
        <<"-", " ", "D", "a", "t", "e", "/", "t", "i", "m", "e">>,
        <<"-", " ", "P", "R", " ", "U", "R", "L", "(", "s", ")">>,
        <<"-", " ", "M", "e", "s", "s", "a", "g", "e", " ", "s", "n", "i", "p",
          "p", "e", "t">>,
        <<>>,
        <<"C", "h", "a", "n", "n", "e", "l", "s", " ", "t", "o", " ", "s", "e",
          "a", "r", "c", "h", ":">>
    >>

channel_line(item) ==
    <<" ", " ", "-", " ">> \o item.name \o <<" ", "(">> \o item.id \o <<")">>

\* The loop of lines 157-158: one line per item of the dict, appended in order.
RECURSIVE append_channel_lines(_, _)
append_channel_lines(ins, items) ==
    IF items = <<>> THEN ins
    ELSE append_channel_lines(Append(ins, channel_line(Head(items))),
                              Tail(items))

\* Faulty variant: a repo pattern of "" is passed on instead of the default.
repo_pattern_or_default_none_only(repo_pattern) ==
    IF repo_pattern.some THEN repo_pattern.v ELSE s_default_repo

\* repo_pattern or "github.com/tatari-tv/.*/pull/"
repo_pattern_or_default(repo_pattern) ==
    IF Truthy(repo_pattern) THEN repo_pattern.v ELSE s_default_repo

\* Faulty variant: the instructions list every channel of the registry.
build_search_config_all_lines(selected, registry, days, today, repo_pattern) ==
    [action |-> s_action,
     channels |-> selected,
     lookback_days |-> days,
     cutoff_timestamp |-> today - days,
     repo_pattern |-> repo_pattern_or_default(repo_pattern),
     review_patterns |-> REVIEW_PATTERNS,
     instructions |->
        append_channel_lines(instructions_head(days, repo_pattern), registry)]

\* Lines 127-158.  The instructions are kept as the sequence of their lines,
\* the cutoff timestamp in days.
build_search_config(selected, registry, days, today, repo_pattern) ==
    [action |-> s_action,
     channels |-> selected,
     lookback_days |-> days,
     cutoff_timestamp |-> today - days,
     repo_pattern |-> repo_pattern_or_default(repo_pattern),
     review_patterns |-> REVIEW_PATTERNS,
     instructions |->
        append_channel_lines(instructions_head(days, repo_pattern), selected)]

(***************************************************************************)
(* One run of the command line tool.                                       *)
(*                                                                         *)
(* argv.command is "search", "list-channels", "missing" (no subcommand),   *)
(* "unknown" (a word that is no subcommand) or "help" (-h); days_ok is     *)
(* false when the value of --days is not an integer.  Standard output      *)
(* holds lines, the help text, or the JSON document json.dumps wrote,      *)
(* kept as the value it denotes.                                           *)
(***************************************************************************)
ChannelIds == {<<"C", "1">>, <<"C", "2">>, <<"e", "n", "g">>}

ChannelNames == {<<"e", "n", "g", "-", "b", "a", "c", "k", "e", "n", "d">>,
  <<"r", "a", "n", "d", "o", "m">>, <<"E", "n", "g", "-", "F", "r", "o", "n",
  "t", "e", "n", "d">>}

Items == [id : ChannelIds, name : ChannelNames]

Registries ==
    UNION {{r \in [1..n -> Items] :
                \A i, j \in 1..n : i # j => r[i].id # r[j].id} :
           n \in 0..MaxChannels}

ConfigFiles ==
    {[kind |-> k, channels |-> <<>>] :
        k \in {"absent", "yaml_error", "not_mapping", "no_channels_key",
               "channels_null", "channels_list"}}
    \cup {[kind |-> "ok", channels |-> r] : r \in Registries}

ChannelFilters ==
    {NoneStr, Some(<<>>), Some(<<"e", "n", "g">>), Some(<<"E", "N", "G">>),
      Some(<<"C", "1">>), Some(<<"x", "y", "z">>)}

RepoPatterns == {NoneStr, Some(<<>>), Some(<<"o", "r", "g", "2">>)}

DaysValues == {-1, 30, 800000}

NowOrdinals == {739924}

PlainArgv(c) ==
    [command |-> c, days_ok |-> TRUE, days |-> 30, channel |-> NoneStr,
     repo_pattern |-> NoneStr]

Argvs ==
    {[command |-> "search", days_ok |-> TRUE, days |-> d, channel |-> c,
      repo_pattern |-> r] :
        d \in DaysValues, c \in ChannelFilters, r \in RepoPatterns}
    \cup {[command |-> "search", days_ok |-> FALSE, days |-> 0,
           channel |-> NoneStr, repo_pattern |-> NoneStr]}
    \cup {PlainArgv(c) : c \in {"list-channels", "missing", "unknown", "help"}}

LibIdle ==
    /\ lib_pc = "idle"
    /\ text = <<>>
    /\ repo_filter = NoneStr
    /\ is_review = FALSE
    /\ urls = <<>>

Init ==
    /\ pc = "parse_args"
    /\ argv \in Argvs
    /\ config_file \in ConfigFiles
    /\ now_ordinal \in NowOrdinals
    /\ channels = [type |-> "unset", items |-> <<>>]
    /\ search_config = <<>>
    /\ stdout = <<>>
    /\ stderr = <<>>
    /\ exit_code = -1
    /\ LibIdle

\* sys.exit(code)
Exit(code) ==
    /\ exit_code' = code
    /\ pc' = "exited"

\* An exception nobody catches: the traceback goes to standard error and the
\* interpreter exits with status 1.
Raise(exc) ==
    /\ stderr' = Append(stderr, [kind |-> "traceback", what |-> exc])
    /\ Exit(1)

\* parser.parse_args() on -h: the help on standard output, exit status 0.
ParseArgsHelp ==
    /\ pc = "parse_args"
    /\ argv.command = "help"
    /\ stdout' = Append(stdout, [kind |-> "help"])
    /\ Exit(0)
    /\ UNCHANGED <<argv, config_file, channels, search_config, stderr,
                   now_ordinal>>
    /\ UNCHANGED lib_vars

\* parser.parse_args() on arguments it rejects: usage and message on standard
\* error, exit status 2.
ParseArgsError ==
    /\ pc = "parse_args"
    /\ \/ argv.command = "unknown"
       \/ argv.command = "search" /\ ~argv.days_ok
    /\ stderr' = Append(stderr, [kind |-> "usage", what |-> argv.command])
    /\ Exit(2)
    /\ UNCHANGED <<argv, config_file, channels, search_config, stdout,
                   now_ordinal>>
    /\ UNCHANGED lib_vars

ParseArgsOk ==
    /\ pc = "parse_args"
    /\ argv.command \in {"missing", "list-channels"}
        \/ (argv.command = "search" /\ argv.days_ok)
    /\ pc' = "dispatch"
    /\ UNCHANGED <<argv, config_file, channels, search_config, stdout, stderr,
                   exit_code, now_ordinal>>
    /\ UNCHANGED lib_vars

\* main(), lines 197-205: the handler is entered.
DispatchCommand ==
    /\ pc = "dispatch"
    /\ argv.command \in {"list-channels", "search"}
    /\ pc' = IF argv.command = "search" THEN "search_load" ELSE "list_load"
    /\ UNCHANGED <<argv, config_file, channels, search_config, stdout, stderr,
                   exit_code, now_ordinal>>
    /\ UNCHANGED lib_vars

\* main(), lines 206-208: parser.print_help() writes to standard output, then
\* sys.exit(1).
DispatchNoCommand ==
    /\ pc = "dispatch"
    /\ argv.command = "missing"
    /\ stdout' = Append(stdout, [kind |-> "help"])
    /\ Exit(1)
    /\ UNCHANGED <<argv, config_file, channels, search_config, stderr,
                   now_ordinal>>
    /\ UNCHANGED lib_vars

\* channels = load_channels(plugin_dir), the first statement of both handlers.
LoadChannels ==
    /\ pc \in {"list_load", "search_load"}
    /\ LET r == load_channels(config_file)
       IN  IF r.status = "exit"
           THEN /\ stderr' = Append(stderr, [kind |-> "error",
                                             what |-> "config_not_found"])
                /\ Exit(1)
                /\ UNCHANGED channels
           ELSE IF r.status = "return"
           THEN /\ channels' = r.value
                /\ pc' = IF pc = "list_load" THEN "list_print"
                         ELSE "search_select"
                /\ UNCHANGED <<stderr, exit_code>>
           ELSE /\ Raise(r.status)
                /\ UNCHANGED channels
    /\ UNCHANGED <<argv, config_file, search_config, stdout, now_ordinal>>
    /\ UNCHANGED lib_vars

\* cmd_list_channels, lines 91-96.  channels.items() raises AttributeError on
\* a value that is no dict, after the two header lines were printed.
ListPrint ==
    /\ pc = "list_print"
    /\ IF channels.type = "dict"
       THEN /\ stdout' = stdout \o list_header \o list_rows(channels.items)
                            \o list_footer(Len(channels.items))
            /\ Exit(0)
            /\ UNCHANGED stderr
       ELSE /\ stdout' = stdout \o list_header
            /\ Raise("AttributeError")
    /\ UNCHANGED <<argv, config_file, channels, search_config, now_ordinal>>
    /\ UNCHANGED lib_vars

\* cmd_search, lines 113-124.
SearchSelect ==
    /\ pc = "search_select"
    /\ IF ~Truthy(argv.channel)
       THEN /\ pc' = "search_build"
            /\ UNCHANGED <<channels, stderr, exit_code>>
       ELSE IF channels.type = "none"
       THEN /\ Raise("TypeError")
            /\ UNCHANGED channels
       ELSE IF channels.type = "list"
       THEN /\ Raise(IF \E k \in 1..Len(channels.items) :
                            channels.items[k] = argv.channel.v
                     THEN "TypeError" ELSE "AttributeError")
            /\ UNCHANGED channels
       ELSE LET sel == select_channels(channels.items, argv.channel.v)
            IN  IF sel.found
                THEN /\ channels' = [type |-> "dict", items |-> sel.items]
                     /\ pc' = "search_build"
                     /\ UNCHANGED <<stderr, exit_code>>
                ELSE /\ stderr' = Append(stderr,
                                     [kind |-> "error",
                                      what |-> "channel_not_found",
                                      arg |-> argv.channel.v])
                     /\ Exit(1)
                     /\ UNCHANGED channels
    /\ UNCHANGED <<argv, config_file, search_config, stdout, now_ordinal>>
    /\ UNCHANGED lib_vars

\* cmd_search, lines 127-158.
SearchBuild ==
    /\ pc = "search_build"
    /\ IF cutoff_overflows(now_ordinal, argv.days)
       THEN /\ Raise("OverflowError")
            /\ UNCHANGED search_config
       ELSE IF channels.type # "dict"
       THEN /\ Raise("AttributeError")
            /\ UNCHANGED search_config
       ELSE /\ search_config' =
                    build_search_config(channels.items, config_file.channels,
                                        argv.days, now_ordinal,
                                        argv.repo_pattern)
            /\ pc' = "search_emit"
            /\ UNCHANGED <<stderr, exit_code>>
    /\ UNCHANGED <<argv, config_file, channels, stdout, now_ordinal>>
    /\ UNCHANGED lib_vars

\* cmd_search, line 160, and the return from main().
SearchEmit ==
    /\ pc = "search_emit"
    /\ stdout' = Append(stdout, [kind |-> "json", doc |-> search_config])
    /\ Exit(0)
    /\ UNCHANGED <<argv, config_file, channels, search_config, stderr,
                   now_ordinal>>
    /\ UNCHANGED lib_vars

Next ==
    \/ ParseArgsHelp
    \/ ParseArgsError
    \/ ParseArgsOk
    \/ DispatchCommand
    \/ DispatchNoCommand
    \/ LoadChannels
    \/ ListPrint
    \/ SearchSelect
    \/ SearchBuild
    \/ SearchEmit

Spec == Init /\ [][Next]_vars

(***************************************************************************)
(* Properties of a run.                                                    *)
(***************************************************************************)
Done == pc = "exited"

\* The config file holds a registry: a mapping, or no `channels` key at all.
RegistryLoaded == config_file.kind \in {"ok", "no_channels_key"}

registry == config_file.channels

SearchOk == Done /\ argv.command = "search" /\ exit_code = 0

emitted == stdout[1].doc

has_id(reg, f) == \E k \in 1..Len(reg) : reg[k].id = f

name_has(item, f) == contains_any_case(item.name, f)

\* What a non-empty filter f is to select from a registry.
expected_selection(reg, f) ==
    LET with_name(item) == name_has(item, f)
    IN  IF has_id(reg, f)
        THEN <<reg[CHOOSE k \in 1..Len(reg) : reg[k].id = f]>>
        ELSE SelectSeq(reg, with_name)

\* C1: with a non-empty channel filter f, the channels selected are the one
\* channel whose id is f when there is one, and otherwise exactly the channels
\* whose display name contains f in any letter case; the search fails only
\* when that leaves none.
C1_FilterSelectsIdThenNames ==
    (argv.command = "search" /\ Truthy(argv.channel) /\ RegistryLoaded) =>
        /\ pc \in {"search_build", "search_emit"} =>
                channels.items = expected_selection(registry, argv.channel.v)
        /\ SearchOk =>
                emitted.channels = expected_selection(registry, argv.channel.v)
        /\ (Done /\ stderr # <<>> /\ stderr[1].what = "channel_not_found") =>
                expected_selection(registry, argv.channel.v) = <<>>

C1_Witness ==
    /\ SearchOk
    /\ argv.channel = Some(<<"e", "n", "g">>)
    /\ registry = <<[id |-> <<"C", "1">>, name |-> <<"e", "n", "g", "-", "b",
        "a", "c", "k", "e", "n", "d">>], [id |-> <<"e", "n", "g">>,
        name |-> <<"r", "a", "n", "d", "o", "m">>]>>
    /\ emitted.channels = <<[id |-> <<"e", "n", "g">>, name |-> <<"r", "a",
        "n", "d", "o", "m">>]>>

no_match(reg, f) ==
    /\ ~has_id(reg, f)
    /\ \A k \in 1..Len(reg) : ~name_has(reg[k], f)

fails_channel_not_found ==
    /\ exit_code = 1
    /\ stdout = <<>>
    /\ Len(stderr) = 1
    /\ stderr[1].kind = "error"
    /\ stderr[1].what = "channel_not_found"

emits_nonempty_subset ==
    /\ emitted.channels # <<>>
    /\ \A k \in 1..Len(emitted.channels) :
        \E j \in 1..Len(registry) : registry[j] = emitted.channels[k]

\* C2 as stated: for every channel filter that is given (None excepted, the
\* empty string included), a filter that matches no id and no display name
\* ends the run with ChannelNotFound and nothing emitted, and a search that
\* succeeds emits a non-empty subset of the registry.
C2_Original ==
    (Done /\ argv.command = "search" /\ argv.channel.some /\ RegistryLoaded) =>
        /\ no_match(registry, argv.channel.v) =>
                (exit_code # 0 /\ stdout = <<>>)
        /\ exit_code = 0 => emits_nonempty_subset

\* C2, amended: the same for every non-empty channel filter.
C2_NonEmptyFilterNotFound ==
    (Done /\ argv.command = "search" /\ Truthy(argv.channel) /\ RegistryLoaded)
        =>
        /\ no_match(registry, argv.channel.v) => fails_channel_not_found
        /\ exit_code = 0 => emits_nonempty_subset

C2_Witness ==
    /\ Done
    /\ argv.command = "search"
    /\ argv.channel = Some(<<"x", "y", "z">>)
    /\ Len(registry) = 2
    /\ fails_channel_not_found
    /\ stderr[1].arg = <<"x", "y", "z">>

Malformed ==
    config_file.kind \in {"yaml_error", "not_mapping", "channels_null",
                          "channels_list"}

UsesConfig == argv.command \in {"search", "list-channels"} /\ argv.days_ok

\* C3 as stated: an absent config file ends the run with ConfigNotFound, a
\* malformed one (anything but a YAML document with a top-level `channels`
\* mapping) ends it, in both commands, with an error reported and nothing on
\* standard output; a well-formed file loads as its `channels` mapping, empty
\* when the key is missing.
C3_Original ==
    UsesConfig =>
        /\ (config_file.kind = "absent" /\ Done) =>
                /\ exit_code # 0
                /\ stdout = <<>>
                /\ stderr = <<[kind |-> "error", what |-> "config_not_found"]>>
        /\ (Malformed /\ Done) =>
                /\ exit_code # 0
                /\ stdout = <<>>
                /\ stderr # <<>>
        /\ (RegistryLoaded /\ pc \in {"list_print", "search_select"}) =>
                channels = [type |-> "dict", items |-> registry]

\* C4 as stated: a run ends either in success (output on standard output,
\* exit status zero) or in error (a message on standard error, exit status
\* non-zero), and a run that exits non-zero reported on standard error and
\* wrote nothing to standard output.
C4_Original ==
    Done =>
        /\ \/ exit_code = 0 /\ stdout # <<>> /\ stderr = <<>>
           \/ exit_code # 0 /\ stderr # <<>>
        /\ exit_code # 0 => (stderr # <<>> /\ stdout = <<>>)

\* C5: a successful search writes one JSON object with exactly the seven keys
\* of the output contract; lookback_days is the requested number of days,
\* channels the selected channels, review_patterns the fixed patterns in
\* their order, repo_pattern the caller's pattern, or the default when none
\* or an empty one was given.
C5_EmittedObject ==
    SearchOk =>
        /\ Len(stdout) = 1
        /\ stdout[1].kind = "json"
        /\ DOMAIN emitted = {"action", "channels", "lookback_days",
                             "cutoff_timestamp", "repo_pattern",
                             "review_patterns", "instructions"}
        /\ emitted.lookback_days = argv.days
        /\ emitted.channels = channels.items
        /\ emitted.channels =
                IF Truthy(argv.channel)
                THEN expected_selection(registry, argv.channel.v)
                ELSE registry
        /\ emitted.review_patterns = REVIEW_PATTERNS
        /\ emitted.repo_pattern =
                IF argv.repo_pattern.some /\ Len(argv.repo_pattern.v) > 0
                THEN argv.repo_pattern.v
                ELSE <<"g", "i", "t", "h", "u", "b", ".", "c", "o", "m", "/",
                    "t", "a", "t", "a", "r", "i", "-", "t", "v", "/", ".", "*",
                    "/", "p", "u", "l", "l", "/">>

C5_Witness ==
    /\ SearchOk
    /\ argv.repo_pattern = Some(<<>>)
    /\ argv.days = -1
    /\ Len(emitted.channels) = 2
    /\ emitted.repo_pattern = s_default_repo

row_text(item) == <<" ", " ">> \o item.id \o <<":", " ">> \o item.name

\* C9: list-channels prints one row per registry entry, the rows ordered by
\* display name, then the number of entries as the total; for an empty
\* registry the total is 0 and there is no row.  The registry is left as it
\* was loaded.
C9_ListChannels ==
    (Done /\ argv.command = "list-channels" /\ RegistryLoaded) =>
        LET n == Len(registry)
            row(r) == stdout[2 + r].line
        IN  /\ exit_code = 0
            /\ Len(stdout) = n + 6
            /\ \A k \in 1..n :
                Cardinality({r \in 1..n : row(r) = row_text(registry[k])}) = 1
            /\ \A r \in 1..(n - 1) :
                \E i, j \in 1..n :
                    /\ row(r) = row_text(registry[i])
                    /\ row(r + 1) = row_text(registry[j])
                    /\ str_le(registry[i].name, registry[j].name)
            /\ stdout[n + 4].line = <<"T", "o", "t", "a", "l", ":",
                " ">> \o int_to_str(n) \o <<" ", "c", "h", "a", "n", "n", "e",
                "l", "s">>
            /\ n = 0 => stdout[4].line = <<"T", "o", "t", "a", "l", ":", " ",
                "0", " ", "c", "h", "a", "n", "n", "e", "l", "s">>
            /\ channels = [type |-> "dict", items |-> registry]

C9_Witness ==
    /\ Done
    /\ argv.command = "list-channels"
    /\ Len(registry) = 2
    /\ registry[1].name = <<"r", "a", "n", "d", "o", "m">>
    /\ registry[2].name = <<"E", "n", "g", "-", "F", "r", "o", "n", "t", "e",
        "n", "d">>
    /\ stdout[3].line = row_text(registry[2])
    /\ stdout[4].line = row_text(registry[1])

ends_with(s, tail) ==
    /\ Len(tail) <= Len(s)
    /\ SubSeq(s, Len(s) - Len(tail) + 1, Len(s)) = tail

name_and_id(item) == item.name \o <<" ", "(">> \o item.id \o <<")">>

\* C10: the instructions of an emitted search specification end with one
\* line `name (id)` per channel of the `channels` field, in the order of that
\* field, each exactly once; no line names a registry channel the filter left
\* out; without a channel filter the channels are the whole registry.
C10_InstructionsListChannels ==
    SearchOk =>
        LET ins == emitted.instructions
            ch == emitted.channels
            h == Len(ins) - Len(ch)
        IN  /\ h >= 1
            /\ ins[h] = <<"C", "h", "a", "n", "n", "e", "l", "s", " ", "t",
                "o", " ", "s", "e", "a", "r", "c", "h", ":">>
            /\ \A k \in 1..Len(ch) :
                /\ ins[h + k] = <<" ", " ", "-", " ">> \o name_and_id(ch[k])
                /\ Cardinality({l \in 1..Len(ins) :
                                   ends_with(ins[l], name_and_id(ch[k]))}) = 1
            /\ \A j \in 1..Len(registry) :
                (\A k \in 1..Len(ch) : ch[k] # registry[j]) =>
                    \A l \in 1..Len(ins) :
                        ~ends_with(ins[l], name_and_id(registry[j]))
            /\ ~Truthy(argv.channel) => ch = registry

C10_Witness ==
    /\ SearchOk
    /\ argv.channel = Some(<<"E", "N", "G">>)
    /\ Len(registry) = 2
    /\ Len(emitted.channels) = 1
    /\ Len(emitted.instructions) = 17
====
